---------------------------- MODULE Spec2Model ----------------------------
(***************************************************************************)
(* Control-plane core of the trading dashboard backend: AgentController    *)
(* (start/stop/status over AgentState), CycleScheduler (the worker loop    *)
(* with the interruptible inter-cycle wait), TelemetryQueue (bounded,      *)
(* drop-newest), LogWriter (drain, ring buffer, daily file) and            *)
(* ShutdownCoordinator (flag, stop, flush, exit).                          *)
(*                                                                         *)
(* The Python backend (trading_app.py) is described by the fix summary     *)
(* src/unnamed/part_002; where that file shows the code or the step, a     *)
(* definition follows it, otherwise it follows the design specification.   *)
(*                                                                         *)
(* The dashboard frontend (src/dashboard/static/app.js) is the client of   *)
(* that control surface: its refresh cycle (updateDashboard), its         *)
(* settings dialog, its console panel and its run and pause buttons are    *)
(* modelled from the JavaScript.                                           *)
(***************************************************************************)
EXTENDS Integers, Sequences, FiniteSets

(* ------------------------------ bounds -------------------------------- *)

\* worker threads that start() may spawn in one run of the model
MaxWorkers == 2
\* largest configured queueCapacity explored
MaxCapacity == 2
\* submissions after which the model stops producing further entries
MaxEnq == 3
\* non-fatal cycle failures after which cycleFn stops failing that way
MaxCycleErrors == 1
\* entries drainBatch is asked for (maxItems)
BatchSize == 1
\* configured ringBufferSize
RingBufferSize == 2
\* disk-write failures after which the disk stays healthy
MaxDiskFailures == 1
\* UTC days the run may span
MaxDay == 2
\* largest limit a recentLogs query asks for
MaxLimit == 2
\* updateDashboard invocations the dashboard makes in one run
MaxRefresh == 2
\* seconds the dashboard's clock advances in one run
MaxTick == 1
\* saveSettings calls made in one run
MaxSaves == 2
\* calls of updateConsole, runAgent and stopAgent made in one run
MaxCalls == 2
\* longest swarm_models list the server returns
MaxServerModels == 7

(* ------------------------------ constants ----------------------------- *)

Workers == 1..MaxWorkers
\* the execution contexts that call AgentController: the shutdown
\* coordinator and the control-plane caller
Coord == 0
Api == 1
ApiCallers == {Api}
Callers == {Coord} \cup ApiCallers
Producers == {"app", "cycle"}
\* LogEntry.level, and the levels the producers of the model log at
LogLevels == {"info", "success", "warning", "error", "trade"}
ProducerLevels == {"info", "trade"}
Days == 1..MaxDay

NoWorker == 0
Null == 0

Min(a, b) == IF a <= b THEN a ELSE b

VARIABLES
  \* AgentState, guarded by state_lock
  phase, executing, lastStarted, lastStopped,
  \* stop_event
  cancel,
  \* logical time read by start() and stop()
  clock,
  \* worker threads: position of each in CycleScheduler.run, and the handle
  \* AgentController keeps of the one it spawned last
  wpc, current,
  \* history: non-fatal failures cycleFn has reported
  cycleErrors,
  \* callers inside stop(): position and the thread being joined
  callPc, joinTarget,
  \* what the call that returned last returned, and to whom
  ret,
  \* history: a stop() returned `stopped` and no start() succeeded since
  cleanStopped,
  \* ShutdownCoordinator
  sdPc, shutdownFlag, flushDrained,
  \* history: number of enqueue calls made when flush(deadline) was called
  flushMark,
  \* TelemetryQueue
  capacity, queue, droppedCount,
  \* history: number of enqueue calls made
  nEnq,
  \* the UTC date: entries are stamped with it, the daily file is named by it
  today,
  \* LogWriter: logFile[d] is the daily file of day d
  wPc, pending, ring, logFile, opErrors,
  \* history: the entries LogWriter has processed, one per processing
  processed,
  \* dashboard, updateDashboard: invocations started, the position of each,
  \* the agentStatus each holds, the requests each has issued
  nUpd, updPc, updStatus, requests,
  \* dashboard: wall clock read by updateTimestamp
  now,
  \* dashboard, DOM: #timestamp, #agent-badge with the run and pause buttons,
  \* #balance/#equity, #pnl, #status, #exchange, #positions, #trades,
  \* #portfolio-chart, window.location
  timestampEl, badge, balanceEl, pnlEl, statusEl, exchangeEl, positionsEl,
  tradesEl, chartEl, location,
  \* dashboard, #console: its lines, first child first; the requests of
  \* updateConsole, runAgent and stopAgent that await their response
  consoleEl, callsInFlight,
  \* history: the number of calls of these made so far
  callsMade,
  \* settings dialog: selectedTokens, swarmModels, #settings-validation, the
  \* POST /api/settings requests awaiting their response, and what the last
  \* saveSettings call did
  selectedTokens, swarmModels, validation, saveInFlight, lastSave

ctlVars == <<phase, executing, lastStarted, lastStopped, cancel, clock,
            wpc, current, callPc, joinTarget, ret, cleanStopped>>
agentVars == <<ctlVars, cycleErrors>>
sdVars == <<sdPc, shutdownFlag, flushDrained, flushMark>>
queueVars == <<capacity, queue, droppedCount, nEnq, today>>
writerVars == <<wPc, pending, ring, logFile, opErrors, processed>>
backendVars == <<agentVars, sdVars, queueVars, writerVars>>
refreshVars == <<nUpd, updPc, updStatus, requests, now, timestampEl, badge,
                 balanceEl, pnlEl, statusEl, exchangeEl, positionsEl, tradesEl,
                 chartEl, location>>
settingsVars == <<selectedTokens, swarmModels, validation, saveInFlight,
                  lastSave>>
panelVars == <<consoleEl, callsInFlight, callsMade>>
uiVars == <<refreshVars, panelVars, settingsVars>>
vars == <<backendVars, uiVars>>

(* --------------------------- TelemetryQueue --------------------------- *)

NewEntry(p, lvl, m) ==
  [id |-> nEnq + 1, day |-> today, producer |-> p, level |-> lvl, msg |-> m]

\* (variant: the fullness test lets one entry too many in)
QueueFullOffByOne(q, cap) == Len(q) > cap

\* put_nowait on a queue.Queue(maxsize=capacity): full means rejected
QueueFull(q, cap) == Len(q) >= cap

\* (variant: a queue created without maxsize grows without bound)
QueueAfterEnqueueUnbounded(q, cap, e) == Append(q, e)

\* (variant: a LIFO queue, queue.LifoQueue for queue.Queue)
QueueAfterEnqueueLifo(q, cap, e) ==
  IF QueueFull(q, cap) THEN q ELSE <<e>> \o q

\* (variant: overwrite-oldest, a full queue evicts its head for the new entry)
QueueAfterEnqueueEvictOldest(q, cap, e) ==
  IF QueueFull(q, cap) THEN Append(Tail(q), e) ELSE Append(q, e)

QueueAfterEnqueue(q, cap, e) ==
  IF QueueFull(q, cap) THEN q ELSE Append(q, e)

DroppedAfterEnqueue(q, cap, d) ==
  IF QueueFull(q, cap) THEN d + 1 ELSE d

\* (variant: a blocking put, which waits for room in a full queue)
EnqueueBlocking(e) ==
  /\ ~QueueFull(queue, capacity)
  /\ queue' = Append(queue, e)
  /\ nEnq' = nEnq + 1
  /\ UNCHANGED <<capacity, droppedCount, today>>

\* enqueue(entry): one non-blocking step, accepted or rejected
Enqueue(e) ==
  /\ queue' = QueueAfterEnqueue(queue, capacity, e)
  /\ droppedCount' = DroppedAfterEnqueue(queue, capacity, droppedCount)
  /\ nEnq' = nEnq + 1
  /\ UNCHANGED <<capacity, today>>

\* drainBatch(maxItems): the oldest min(maxItems, length) entries
DrainBatch(q, n) == SubSeq(q, 1, Min(n, Len(q)))
AfterDrain(q, n) == SubSeq(q, Min(n, Len(q)) + 1, Len(q))

(* ------------------------------ LogWriter ----------------------------- *)

\* (variant: the slice keeps the first entries, logs[:N] for logs[-N:])
RingAppendKeepsOldest(r, e) ==
  LET r2 == Append(r, e)
  IN IF Len(r2) > RingBufferSize THEN SubSeq(r2, 1, RingBufferSize) ELSE r2

\* append to the ring buffer, evicting the oldest entry if over capacity
RingAppend(r, e) ==
  LET r2 == Append(r, e)
  IN IF Len(r2) > RingBufferSize THEN SubSeq(r2, 2, Len(r2)) ELSE r2

\* "[HH:MM:SS] [LEVEL] message": the line keeps the entry's timestamp, level
\* and message, and not its producer
Serialize(e) == [id |-> e.id, day |-> e.day, level |-> e.level, msg |-> e.msg]

\* the daily file a write goes to: app_YYYY-MM-DD.log of the date of the write
CurrentFile == today

\* the persisted log: the daily files of days 1..d one after the other
RECURSIVE FilesUpTo(_, _)
FilesUpTo(f, d) == IF d = 0 THEN << >> ELSE FilesUpTo(f, d - 1) \o f[d]

PersistedLog == FilesUpTo(logFile, MaxDay)


(* --------------------------- AgentController -------------------------- *)

\* threads of CycleScheduler.run that have been spawned and have not exited
LiveWorkers == {w \in Workers : wpc[w] \notin {"unborn", "exited"}}

\* (variant: stop() keeps state_lock while it waits for the agent thread)
LockHeldDuringJoin(c) == callPc[c] = "joining"

\* `with state_lock:` releases the lock when the block is left: between two
\* steps of the model no caller holds it
LockHeldBy(c) == FALSE

\* caller c can take the lock; so can a worker thread
LockFree(c) == \A d \in Callers \ {c} : ~LockHeldBy(d)
LockFreeForWorker == \A d \in Callers : ~LockHeldBy(d)

\* status(): a copy of AgentState
StatusSnapshot ==
  [running |-> phase # "STOPPED", executing |-> executing,
   lastStarted |-> lastStarted, lastStopped |-> lastStopped]

\* what a call hands back: start() and stop() a status, status() a snapshot
NoSnapshot ==
  [running |-> FALSE, executing |-> FALSE, lastStarted |-> Null,
   lastStopped |-> Null]

Returned(c, st, snap) ==
  [caller |-> c, status |-> st, snapshot |-> snap, logs |-> << >>]

\* ... and recentLogs() a sequence of entries
ReturnedLogs(c, entries) ==
  [caller |-> c, status |-> "ok", snapshot |-> NoSnapshot, logs |-> entries]

\* start() finds a worker active: nothing happens
StartRefused(c) ==
  /\ phase # "STOPPED"
  /\ ret' = Returned(c, "already_running", NoSnapshot)
  /\ UNCHANGED <<phase, executing, lastStarted, lastStopped, cancel, clock,
                 wpc, current, callPc, joinTarget, cleanStopped>>

\* (variant: start() without the phase check)
StartAcceptedUnchecked(c) ==
  /\ current < MaxWorkers
  /\ phase' = "RUNNING"
  /\ lastStarted' = clock
  /\ clock' = clock + 1
  /\ cancel' = FALSE
  /\ current' = current + 1
  /\ wpc' = [wpc EXCEPT ![current + 1] = "top"]
  /\ ret' = Returned(c, "started", NoSnapshot)
  /\ cleanStopped' = FALSE
  /\ UNCHANGED <<executing, lastStopped, callPc, joinTarget>>

\* (variant: start() is turned away only while phase is RUNNING)
StartAcceptedWhileStopping(c) ==
  /\ phase # "RUNNING"
  /\ current < MaxWorkers
  /\ phase' = "RUNNING"
  /\ lastStarted' = clock
  /\ clock' = clock + 1
  /\ cancel' = FALSE
  /\ current' = current + 1
  /\ wpc' = [wpc EXCEPT ![current + 1] = "top"]
  /\ ret' = Returned(c, "started", NoSnapshot)
  /\ cleanStopped' = FALSE
  /\ UNCHANGED <<executing, lastStopped, callPc, joinTarget>>

\* start() from STOPPED: under state_lock, mark running, clear stop_event,
\* spawn the agent thread
StartAccepted(c) ==
  /\ phase = "STOPPED"
  /\ current < MaxWorkers
  /\ phase' = "RUNNING"
  /\ lastStarted' = clock
  /\ clock' = clock + 1
  /\ cancel' = FALSE
  /\ current' = current + 1
  /\ wpc' = [wpc EXCEPT ![current + 1] = "top"]
  /\ ret' = Returned(c, "started", NoSnapshot)
  /\ cleanStopped' = FALSE
  /\ UNCHANGED <<executing, lastStopped, callPc, joinTarget>>

Start(c) ==
  /\ c \in ApiCallers
  /\ callPc[c] = "idle"
  /\ sdPc # "exited"
  /\ LockFree(c)
  /\ (StartRefused(c) \/ StartAccepted(c))
  /\ UNCHANGED <<cycleErrors, sdVars, queueVars, writerVars>>
  /\ UNCHANGED uiVars

\* stop() finds phase=STOPPED
StopNotRunning(c) ==
  /\ phase = "STOPPED"
  /\ ret' = Returned(c, "not_running", NoSnapshot)
  /\ UNCHANGED <<phase, executing, lastStarted, lastStopped, cancel, clock,
                 wpc, current, callPc, joinTarget, cleanStopped>>

\* (variant: stop() raises the signal and joins without the phase check)
StopRequestedUnchecked(c) ==
  /\ phase' = "STOPPING"
  /\ cancel' = TRUE
  /\ callPc' = [callPc EXCEPT ![c] = "joining"]
  /\ joinTarget' = [joinTarget EXCEPT ![c] = current]
  /\ UNCHANGED <<executing, lastStarted, lastStopped, clock, wpc, current,
                 ret, cleanStopped>>

\* (variant: stop() raises the signal and returns without joining the thread)
StopRequestedNoJoin(c) ==
  /\ phase # "STOPPED"
  /\ phase' = "STOPPING"
  /\ cancel' = TRUE
  /\ ret' = Returned(c, "stopped", NoSnapshot)
  /\ UNCHANGED <<executing, lastStarted, lastStopped, clock, wpc, current,
                 callPc, joinTarget, cleanStopped>>

\* stop() otherwise: phase=STOPPING, raise the signal, begin the bounded join
StopRequested(c) ==
  /\ phase # "STOPPED"
  /\ phase' = "STOPPING"
  /\ cancel' = TRUE
  /\ callPc' = [callPc EXCEPT ![c] = "joining"]
  /\ joinTarget' = [joinTarget EXCEPT ![c] = current]
  /\ UNCHANGED <<executing, lastStarted, lastStopped, clock, wpc, current,
                 ret, cleanStopped>>

StopBegin(c) ==
  /\ callPc[c] = "idle"
  /\ LockFree(c)
  /\ (StopNotRunning(c) \/ StopRequested(c))

\* the joined thread has exited within the join timeout
StopJoined(c) ==
  /\ callPc[c] = "joining"
  /\ LockFree(c)
  /\ wpc[joinTarget[c]] = "exited"
  /\ phase' = "STOPPED"
  /\ lastStopped' = clock
  /\ clock' = clock + 1
  /\ callPc' = [callPc EXCEPT ![c] = "idle"]
  /\ ret' = Returned(c, "stopped", NoSnapshot)
  /\ cleanStopped' = TRUE
  /\ UNCHANGED <<executing, lastStarted, cancel, wpc, current, joinTarget>>

\* (variant: the forced stop reports nothing)
StopTimeoutSilent(c) ==
  /\ callPc[c] = "joining"
  /\ wpc[joinTarget[c]] # "exited"
  /\ phase' = "STOPPED"
  /\ callPc' = [callPc EXCEPT ![c] = "idle"]
  /\ ret' = Returned(c, "stopped_forced", NoSnapshot)
  /\ UNCHANGED queueVars
  /\ UNCHANGED <<executing, lastStarted, lastStopped, cancel, clock, wpc,
                 current, joinTarget, cleanStopped>>

\* the join timeout has elapsed with the thread still alive: force STOPPED,
\* report the abandoned worker, leave the thread running
StopTimeout(c) ==
  /\ callPc[c] = "joining"
  /\ LockFree(c)
  /\ wpc[joinTarget[c]] # "exited"
  /\ phase' = "STOPPED"
  /\ callPc' = [callPc EXCEPT ![c] = "idle"]
  /\ ret' = Returned(c, "stopped_forced", NoSnapshot)
  /\ Enqueue(NewEntry("controller", "error", "abandoned"))
  /\ UNCHANGED <<executing, lastStarted, lastStopped, cancel, clock, wpc,
                 current, joinTarget, cleanStopped>>

\* stop() called by an API handler: the call up to the join
StopCall(c) ==
  /\ c \in ApiCallers
  /\ sdPc # "exited"
  /\ StopBegin(c)
  /\ UNCHANGED <<cycleErrors, sdVars, queueVars, writerVars>>
  /\ UNCHANGED uiVars

\* ... and its return, once the thread has exited or the timeout has elapsed
StopFinish(c) ==
  /\ c \in ApiCallers
  /\ sdPc # "exited"
  /\ \/ StopJoined(c) /\ UNCHANGED queueVars
     \/ StopTimeout(c)
  /\ UNCHANGED <<cycleErrors, sdVars, writerVars>>
  /\ UNCHANGED uiVars

Status(c) ==
  /\ c \in ApiCallers
  /\ callPc[c] = "idle"
  /\ sdPc # "exited"
  /\ LockFree(c)
  /\ ret' = Returned(c, "ok", StatusSnapshot)
  /\ UNCHANGED <<phase, executing, lastStarted, lastStopped, cancel, clock,
                 wpc, current, callPc, joinTarget, cleanStopped>>
  /\ UNCHANGED <<cycleErrors, sdVars, queueVars, writerVars>>
  /\ UNCHANGED uiVars

\* recentLogs without a levelFilter
NoFilter == "any"

\* the last min(n, Len(s)) elements of s, in order
LastN(s, n) == SubSeq(s, Len(s) - Min(n, Len(s)) + 1, Len(s))

\* (variant: the limit is not applied)
RecentLogsUnlimited(r, limit, filter) ==
  SelectSeq(r, LAMBDA e : filter = NoFilter \/ e.level = filter)

\* recentLogs(limit, levelFilter?): the most recent `limit` entries of the
\* ring buffer among those of the level asked for
RecentLogsOf(r, limit, filter) ==
  LastN(SelectSeq(r, LAMBDA e : filter = NoFilter \/ e.level = filter), limit)

\* recentLogs called by an API handler: reads a copy of the ring buffer
RecentLogs(c, limit, filter) ==
  /\ c \in ApiCallers
  /\ callPc[c] = "idle"
  /\ sdPc # "exited"
  /\ ret' = ReturnedLogs(c, RecentLogsOf(ring, limit, filter))
  /\ UNCHANGED <<phase, executing, lastStarted, lastStopped, cancel, clock,
                 wpc, current, callPc, joinTarget, cleanStopped>>
  /\ UNCHANGED <<cycleErrors, sdVars, queueVars, writerVars>>
  /\ UNCHANGED uiVars

(* ---------------------------- CycleScheduler -------------------------- *)

CycleResults == {"ok", "error", "fatal"}

\* loop head: set executing=true and call cycleFn(cancelSignal); the call
\* either returns later or never does
WorkerBeginCycle(w, hangs) ==
  /\ wpc[w] = "top"
  /\ LockFreeForWorker
  /\ executing' = TRUE
  /\ wpc' = [wpc EXCEPT ![w] = IF hangs THEN "hung" ELSE "cycle"]
  /\ UNCHANGED <<phase, lastStarted, lastStopped, cancel, clock, current,
                 callPc, joinTarget, ret, cleanStopped>>
  /\ UNCHANGED <<cycleErrors, sdVars, queueVars, writerVars>>

\* where the loop goes once cycleFn has returned r
AfterCycle(r) == IF r = "fatal" THEN "fatal" ELSE "check"

\* cycleFn returns: set executing=false; a non-fatal failure is logged as an
\* error-level event
WorkerCycleReturn(w, r) ==
  /\ wpc[w] = "cycle"
  /\ LockFreeForWorker
  /\ r = "error" => cycleErrors < MaxCycleErrors
  /\ cycleErrors' = IF r = "error" THEN cycleErrors + 1 ELSE cycleErrors
  /\ executing' = FALSE
  /\ wpc' = [wpc EXCEPT ![w] = AfterCycle(r)]
  /\ IF r = "error"
       THEN Enqueue(NewEntry("cycle", "error", "cycle_error"))
       ELSE UNCHANGED queueVars
  /\ UNCHANGED <<phase, lastStarted, lastStopped, cancel, clock, current,
                 callPc, joinTarget, ret, cleanStopped>>
  /\ UNCHANGED <<sdVars, writerVars>>

\* a fatal failure: the scheduler exits and AgentController goes to STOPPED
\* with a fatal-error event
WorkerFatalExit(w) ==
  /\ wpc[w] = "fatal"
  /\ LockFreeForWorker
  /\ wpc' = [wpc EXCEPT ![w] = "exited"]
  /\ phase' = "STOPPED"
  /\ Enqueue(NewEntry("controller", "error", "fatal_stop"))
  /\ UNCHANGED <<executing, lastStarted, lastStopped, cancel, clock, current,
                 callPc, joinTarget, ret, cleanStopped>>
  /\ UNCHANGED <<cycleErrors, sdVars, writerVars>>

\* after the cycle: if the cancellation signal is raised, exit the loop,
\* else enter the inter-cycle wait
WorkerCheckCancel(w) ==
  /\ wpc[w] = "check"
  /\ wpc' = [wpc EXCEPT ![w] = IF cancel THEN "exited" ELSE "wait"]
  /\ UNCHANGED <<phase, executing, lastStarted, lastStopped, cancel, clock,
                 current, callPc, joinTarget, ret, cleanStopped>>
  /\ UNCHANGED <<cycleErrors, sdVars, queueVars, writerVars>>

\* (variant: the test of the wait's result is inverted)
WorkerWaitReturnsInverted(w) ==
  /\ wpc[w] = "wait"
  /\ wpc' = [wpc EXCEPT ![w] = IF cancel THEN "top" ELSE "exited"]
  /\ UNCHANGED <<phase, executing, lastStarted, lastStopped, cancel, clock,
                 current, callPc, joinTarget, ret, cleanStopped>>
  /\ UNCHANGED <<cycleErrors, sdVars, queueVars, writerVars>>

\* stop_event.wait(timeout=sleep_seconds): True (signal set) breaks the loop,
\* False (timeout elapsed) starts the next cycle
WorkerWaitReturns(w) ==
  /\ wpc[w] = "wait"
  /\ wpc' = [wpc EXCEPT ![w] = IF cancel THEN "exited" ELSE "top"]
  /\ UNCHANGED <<phase, executing, lastStarted, lastStopped, cancel, clock,
                 current, callPc, joinTarget, ret, cleanStopped>>
  /\ UNCHANGED <<cycleErrors, sdVars, queueVars, writerVars>>

Worker(w) ==
  /\ sdPc # "exited"
  /\ \/ \E hangs \in BOOLEAN : WorkerBeginCycle(w, hangs)
     \/ \E r \in CycleResults : WorkerCycleReturn(w, r)
     \/ WorkerFatalExit(w)
     \/ WorkerCheckCancel(w)
     \/ WorkerWaitReturns(w)
  /\ UNCHANGED uiVars

(* -------------------------- LogWriter thread -------------------------- *)

\* (variant: the batch is read off the queue without being removed from it)
WriterDrainPeeks ==
  /\ wPc \in {"idle", "failed"}
  /\ sdPc = "flushing" => ~flushDrained
  /\ wPc' = "writing"
  /\ pending' = pending \o DrainBatch(queue, BatchSize)
  /\ flushDrained' = (sdPc = "flushing")
  /\ UNCHANGED <<capacity, queue, droppedCount, nEnq, today, ring, logFile,
                 opErrors, processed, sdPc, shutdownFlag, flushMark>>

\* (variant: the batch of a failed write is discarded at the next interval)
WriterDrainDiscardsFailed ==
  /\ wPc \in {"idle", "failed"}
  /\ sdPc = "flushing" => ~flushDrained
  /\ wPc' = "writing"
  /\ pending' = DrainBatch(queue, BatchSize)
  /\ queue' = AfterDrain(queue, BatchSize)
  /\ flushDrained' = (sdPc = "flushing")
  /\ UNCHANGED <<capacity, droppedCount, nEnq, today, ring, logFile,
                 opErrors, processed, sdPc, shutdownFlag, flushMark>>

\* (variant: the queue is emptied once the batch has been taken from it)
WriterDrainClearsQueue ==
  /\ wPc \in {"idle", "failed"}
  /\ sdPc = "flushing" => ~flushDrained
  /\ wPc' = "writing"
  /\ pending' = pending \o DrainBatch(queue, BatchSize)
  /\ queue' = << >>
  /\ flushDrained' = (sdPc = "flushing")
  /\ UNCHANGED <<capacity, droppedCount, nEnq, today, ring, logFile,
                 opErrors, processed, sdPc, shutdownFlag, flushMark>>

\* a flush interval elapses: drainBatch into the batch being written (what
\* an earlier failed write left is still at its head)
WriterDrain ==
  /\ wPc \in {"idle", "failed"}
  /\ sdPc = "flushing" => ~flushDrained
  /\ wPc' = "writing"
  /\ pending' = pending \o DrainBatch(queue, BatchSize)
  /\ queue' = AfterDrain(queue, BatchSize)
  /\ flushDrained' = (sdPc = "flushing")
  /\ UNCHANGED <<capacity, droppedCount, nEnq, today, ring, logFile,
                 opErrors, processed, sdPc, shutdownFlag, flushMark>>

\* (variant: the daily file is opened for writing, not for appending)
WriterWriteEntryTruncates ==
  /\ wPc = "writing"
  /\ pending # << >>
  /\ ring' = RingAppend(ring, Head(pending))
  /\ logFile' = [logFile EXCEPT ![CurrentFile] = <<Serialize(Head(pending))>>]
  /\ processed' = Append(processed, Head(pending))
  /\ pending' = Tail(pending)
  /\ UNCHANGED <<wPc, opErrors, queueVars, sdVars>>

\* one entry of the batch: ring buffer, then a line appended to the daily file
WriterWriteEntry ==
  /\ wPc = "writing"
  /\ pending # << >>
  /\ ring' = RingAppend(ring, Head(pending))
  /\ logFile' = [logFile EXCEPT
                   ![CurrentFile] = Append(@, Serialize(Head(pending)))]
  /\ processed' = Append(processed, Head(pending))
  /\ pending' = Tail(pending)
  /\ UNCHANGED <<wPc, opErrors, queueVars, sdVars>>

\* the disk write of an entry fails: caught, reported on the operational
\* error channel, the writer goes on to its next flush interval
WriterWriteFails ==
  /\ wPc = "writing"
  /\ pending # << >>
  /\ opErrors < MaxDiskFailures
  /\ ring' = RingAppend(ring, Head(pending))
  /\ processed' = Append(processed, Head(pending))
  /\ opErrors' = opErrors + 1
  /\ wPc' = "failed"
  /\ UNCHANGED <<pending, logFile, queueVars, sdVars>>

\* the batch is written
WriterBatchDone ==
  /\ wPc = "writing"
  /\ pending = << >>
  /\ wPc' = "idle"
  /\ UNCHANGED <<pending, ring, logFile, opErrors, processed, queueVars,
                 sdVars>>

\* (variant: the failure is logged through add_console_log, that is, into
\* the telemetry queue the writer itself consumes)
WriterWriteFailsIntoQueue ==
  /\ wPc = "writing"
  /\ pending # << >>
  /\ opErrors < MaxDiskFailures
  /\ ring' = RingAppend(ring, Head(pending))
  /\ processed' = Append(processed, Head(pending))
  /\ opErrors' = opErrors + 1
  /\ wPc' = "failed"
  /\ Enqueue(NewEntry("writer", "error", "disk_error"))
  /\ UNCHANGED <<pending, logFile, sdVars>>

WriterFeedingBack ==
  /\ sdPc # "exited"
  /\ \/ WriterDrain
     \/ WriterWriteEntry
     \/ WriterWriteFailsIntoQueue
     \/ WriterBatchDone
  /\ UNCHANGED agentVars
  /\ UNCHANGED uiVars

Writer ==
  /\ sdPc # "exited"
  /\ (WriterDrain \/ WriterWriteEntry \/ WriterWriteFails \/ WriterBatchDone)
  /\ UNCHANGED agentVars
  /\ UNCHANGED uiVars

(* ------------------------- ShutdownCoordinator ------------------------ *)

\* (1) SIGINT/SIGTERM: shutdown_in_progress = True
Terminate ==
  /\ sdPc = "idle"
  /\ sdPc' = "flagged"
  /\ shutdownFlag' = TRUE
  /\ UNCHANGED <<flushDrained, flushMark, agentVars, queueVars, writerVars>>
  /\ UNCHANGED uiVars

\* (variant: the coordinator joins the agent thread without a timeout)
CoordStopUnbounded ==
  /\ sdPc \in {"flagged", "stopping"}
  /\ \/ /\ sdPc = "flagged"
        /\ StopBegin(Coord)
        /\ sdPc' = IF phase = "STOPPED" THEN "stopped" ELSE "stopping"
     \/ /\ sdPc = "stopping"
        /\ StopJoined(Coord)
        /\ sdPc' = "stopped"
  /\ UNCHANGED <<cycleErrors, shutdownFlag, flushDrained, flushMark,
                 queueVars, writerVars>>
  /\ UNCHANGED uiVars

\* (2) AgentController.stop(), bounded by its join timeout
CoordStop ==
  /\ sdPc \in {"flagged", "stopping"}
  /\ \/ /\ sdPc = "flagged"
        /\ StopBegin(Coord)
        /\ sdPc' = IF phase = "STOPPED" THEN "stopped" ELSE "stopping"
        /\ UNCHANGED queueVars
     \/ /\ sdPc = "stopping"
        /\ StopJoined(Coord)
        /\ sdPc' = "stopped"
        /\ UNCHANGED queueVars
     \/ /\ sdPc = "stopping"
        /\ StopTimeout(Coord)
        /\ sdPc' = "stopped"
  /\ UNCHANGED <<cycleErrors, shutdownFlag, flushDrained, flushMark,
                 writerVars>>
  /\ UNCHANGED uiVars

\* (variant: the flush is started while stop() still waits for the thread)
CoordFlushBeginEarly ==
  /\ sdPc \in {"stopping", "stopped"}
  /\ sdPc' = "flushing"
  /\ flushDrained' = FALSE
  /\ flushMark' = nEnq
  /\ UNCHANGED <<shutdownFlag, agentVars, queueVars, writerVars>>
  /\ UNCHANGED uiVars

\* (3) LogWriter.flush(deadline): one final drain-and-write cycle
CoordFlushBegin ==
  /\ sdPc = "stopped"
  /\ sdPc' = "flushing"
  /\ flushDrained' = FALSE
  /\ flushMark' = nEnq
  /\ UNCHANGED <<shutdownFlag, agentVars, queueVars, writerVars>>
  /\ UNCHANGED uiVars

\* the final cycle has drained and the writer is through with its batch
CoordFlushDone ==
  /\ sdPc = "flushing"
  /\ flushDrained
  /\ wPc \in {"idle", "failed"}
  /\ sdPc' = "flushed"
  /\ UNCHANGED <<shutdownFlag, flushDrained, flushMark, agentVars, queueVars,
                 writerVars>>
  /\ UNCHANGED uiVars

\* the flush deadline has passed: proceed regardless
CoordFlushDeadline ==
  /\ sdPc = "flushing"
  /\ sdPc' = "flushed"
  /\ UNCHANGED <<shutdownFlag, flushDrained, flushMark, agentVars, queueVars,
                 writerVars>>
  /\ UNCHANGED uiVars

\* (4) exit: os._exit(0) ends every thread of the process
CoordExit ==
  /\ sdPc = "flushed"
  /\ sdPc' = "exited"
  /\ UNCHANGED <<shutdownFlag, flushDrained, flushMark, agentVars, queueVars,
                 writerVars>>
  /\ UNCHANGED uiVars

(* ------------------------------ producers ----------------------------- *)

\* add_console_log(msg) from any call site
ProducerEnqueue(p) ==
  /\ sdPc # "exited"
  /\ nEnq < MaxEnq
  /\ \E lvl \in ProducerLevels : Enqueue(NewEntry(p, lvl, "log"))
  /\ UNCHANGED <<agentVars, sdVars, writerVars>>
  /\ UNCHANGED uiVars

(* -------------------------------- time -------------------------------- *)

\* midnight UTC: the date changes
Midnight ==
  /\ sdPc # "exited"
  /\ today < MaxDay
  /\ today' = today + 1
  /\ UNCHANGED <<capacity, queue, droppedCount, nEnq>>
  /\ UNCHANGED <<agentVars, sdVars, writerVars>>
  /\ UNCHANGED uiVars

(* ------------------------ dashboard: refresh -------------------------- *)

\* a JSON field used as a condition: true, false, or not there
JsonBool == {"true", "false", "undefined"}
\* if (v): of these values only true is truthy
Truthy(v) == v = "true"

RefreshIds == 1..MaxRefresh

\* what the server's data, trades and history responses carry
Payloads == {"v1", "v2"}
\* content of an element the scripts have not written yet
NoContent == "-"

\* now.toLocaleTimeString(...): the text written to #timestamp
TimeString(t) == <<t>>

\* the JSON of /api/agent-status
AgentStatusResponses == [running : {"true", "false"}, executing : JsonBool]
NoStatus == [running |-> "undefined", executing |-> "undefined"]

\* the response of /api/data: 200 with the data, 401, another error status
DataResponses ==
  [ok : {TRUE}, status : {200}, agent_running : {"true", "false"},
   payload : Payloads]
  \cup [ok : {FALSE}, status : {401, 500}, agent_running : {"undefined"},
        payload : {NoContent}]

\* the endpoints of the full update
HeavyUrls == {"/api/data", "/api/trades", "/api/history"}

\* updateAgentBadge(isRunning, isExecuting): text and class of the badge,
\* display of the run and pause buttons
AgentBadge(isRunning, isExecuting) ==
  IF Truthy(isExecuting)
    THEN [text |-> "RUNNING", cls |-> "agent-badge running",
          runBtn |-> "none", pauseBtn |-> "inline-flex"]
    ELSE IF Truthy(isRunning)
      THEN [text |-> "stand by", cls |-> "agent-badge running",
            runBtn |-> "none", pauseBtn |-> "inline-flex"]
      ELSE [text |-> "ready", cls |-> "agent-badge ready",
            runBtn |-> "inline-flex", pauseBtn |-> "none"]

\* setStatusOffline(): status line and badge, the buttons stay
SetStatusOffline ==
  /\ statusEl' = [text |-> "Offline", cls |-> "sublabel offline"]
  /\ badge' = [badge EXCEPT !.text = "Disconnected",
                            !.cls = "agent-badge offline"]

\* updateStatus(status, isRunning)
StatusLine(status, isRunning) ==
  [text |-> status,
   cls |-> IF Truthy(isRunning) THEN "sublabel running" ELSE "sublabel ready"]

\* fetch(url) issued by invocation i
Fetch(i, url) == requests' = requests \cup {<<i, url>>}

\* updateDashboard() is called: it requests /api/agent-status and awaits
\* the answer
UpdateDashboard ==
  /\ nUpd < MaxRefresh
  /\ nUpd' = nUpd + 1
  /\ updPc' = [updPc EXCEPT ![nUpd + 1] = "status"]
  /\ Fetch(nUpd + 1, "/api/agent-status")
  /\ UNCHANGED <<updStatus, now, timestampEl, badge, balanceEl, pnlEl,
                 statusEl, exchangeEl, positionsEl, tradesEl, chartEl,
                 location>>

\* ... by the page load or the 10 s timer
UpdateDashboardCall ==
  /\ UpdateDashboard
  /\ UNCHANGED <<backendVars, panelVars, settingsVars>>

\* (variant: the check of agentStatus.executing is missing)
LightweightNever(agentStatus) == FALSE

\* if (agentStatus.executing): lightweight update only
Lightweight(agentStatus) == Truthy(agentStatus.executing)

\* the request of invocation i failed, or its body was no JSON: the catch
\* block of updateDashboard
UpdateDashboardCatch(i) ==
  /\ updPc[i] \in {"status", "data", "trades"}
  /\ SetStatusOffline
  /\ updPc' = [updPc EXCEPT ![i] = "done"]
  /\ UNCHANGED <<nUpd, updStatus, requests, now, timestampEl, balanceEl,
                 pnlEl, exchangeEl, positionsEl, tradesEl, chartEl, location>>
  /\ UNCHANGED <<backendVars, panelVars, settingsVars>>

\* /api/agent-status has answered: while the agent executes, timestamp and
\* badge only; else go on to the full update and request /api/data
UpdateDashboardStatus(i, agentStatus) ==
  /\ updPc[i] = "status"
  /\ updStatus' = [updStatus EXCEPT ![i] = agentStatus]
  /\ IF Lightweight(agentStatus)
       THEN /\ timestampEl' = TimeString(now)
            /\ badge' = AgentBadge(agentStatus.running, agentStatus.executing)
            /\ updPc' = [updPc EXCEPT ![i] = "done"]
            /\ UNCHANGED requests
       ELSE /\ Fetch(i, "/api/data")
            /\ updPc' = [updPc EXCEPT ![i] = "data"]
            /\ UNCHANGED <<timestampEl, badge>>
  /\ UNCHANGED <<nUpd, now, balanceEl, pnlEl, statusEl, exchangeEl,
                 positionsEl, tradesEl, chartEl, location>>
  /\ UNCHANGED <<backendVars, panelVars, settingsVars>>

\* /api/data has answered: 401 goes to the login page, another error shows
\* offline, 200 updates every metric and requests /api/trades
UpdateDashboardData(i, response) ==
  /\ updPc[i] = "data"
  /\ IF ~response.ok
       THEN /\ IF response.status = 401
                 THEN location' = "/login" /\ UNCHANGED <<statusEl, badge>>
                 ELSE SetStatusOffline /\ UNCHANGED location
            /\ updPc' = [updPc EXCEPT ![i] = "done"]
            /\ UNCHANGED <<requests, timestampEl, balanceEl, pnlEl,
                           exchangeEl, positionsEl>>
       ELSE /\ balanceEl' = response.payload
            /\ pnlEl' = response.payload
            /\ statusEl' = StatusLine(response.payload, response.agent_running)
            /\ exchangeEl' = response.payload
            /\ timestampEl' = TimeString(now)
            /\ positionsEl' = response.payload
            /\ badge' = AgentBadge(response.agent_running,
                                   updStatus[i].executing)
            /\ Fetch(i, "/api/trades")
            /\ updPc' = [updPc EXCEPT ![i] = "trades"]
            /\ UNCHANGED location
  /\ UNCHANGED <<nUpd, updStatus, now, tradesEl, chartEl>>
  /\ UNCHANGED <<backendVars, panelVars, settingsVars>>

\* /api/trades has answered: the trades list, then updatePortfolioChart(),
\* which requests /api/history and is not awaited
UpdateDashboardTrades(i, trades) ==
  /\ updPc[i] = "trades"
  /\ tradesEl' = trades
  /\ Fetch(i, "/api/history")
  /\ updPc' = [updPc EXCEPT ![i] = "history"]
  /\ UNCHANGED <<nUpd, updStatus, now, timestampEl, badge, balanceEl, pnlEl,
                 statusEl, exchangeEl, positionsEl, chartEl, location>>
  /\ UNCHANGED <<backendVars, panelVars, settingsVars>>

\* updatePortfolioChart: /api/history has answered, or failed (logged only)
UpdatePortfolioChart(i, failed, history) ==
  /\ updPc[i] = "history"
  /\ chartEl' = IF failed THEN chartEl ELSE history
  /\ updPc' = [updPc EXCEPT ![i] = "done"]
  /\ UNCHANGED <<nUpd, updStatus, requests, now, timestampEl, badge,
                 balanceEl, pnlEl, statusEl, exchangeEl, positionsEl,
                 tradesEl, location>>
  /\ UNCHANGED <<backendVars, panelVars, settingsVars>>

\* a second passes
Tick ==
  /\ now < MaxTick
  /\ now' = now + 1
  /\ UNCHANGED <<nUpd, updPc, updStatus, requests, timestampEl, badge,
                 balanceEl, pnlEl, statusEl, exchangeEl, positionsEl,
                 tradesEl, chartEl, location>>
  /\ UNCHANGED <<backendVars, panelVars, settingsVars>>

\* setInterval(updateTimestamp, 1000)
UpdateTimestamp ==
  /\ timestampEl # TimeString(now)
  /\ timestampEl' = TimeString(now)
  /\ UNCHANGED <<nUpd, updPc, updStatus, requests, now, badge, balanceEl,
                 pnlEl, statusEl, exchangeEl, positionsEl, tradesEl, chartEl,
                 location>>
  /\ UNCHANGED <<backendVars, panelVars, settingsVars>>

(* ------------------------ dashboard: settings ------------------------- *)

\* the endpoints updateConsole, runAgent and stopAgent request
PanelUrls == {"/api/console", "/api/start", "/api/stop"}

\* limits written in the dialog's code
MinCycleTime == 1
MaxCycleTime == 1440
MinMaxTokens == 100
MaxMaxTokens == 100000
MinSwarmModels == 1
MaxSwarmModels == 6
\* lines the console panel keeps
ConsoleLimit == 50

\* a text is the sequence of its characters
IsDigit(ch) == ch \in {"0", "1", "2", "3", "4", "5", "6", "7", "8", "9"}
DigitValue(ch) ==
  CASE ch = "0" -> 0 [] ch = "1" -> 1 [] ch = "2" -> 2 [] ch = "3" -> 3
    [] ch = "4" -> 4 [] ch = "5" -> 5 [] ch = "6" -> 6 [] ch = "7" -> 7
    [] ch = "8" -> 8 [] ch = "9" -> 9

\* what a number in JavaScript is here: NaN, or an integer
NaN == [nan |-> TRUE, val |-> 0]
Num(n) == [nan |-> FALSE, val |-> n]

RECURSIVE StripLeft(_)
StripLeft(t) ==
  IF t # << >> /\ Head(t) = " " THEN StripLeft(Tail(t)) ELSE t

\* the value of the longest prefix of digits of t, read after acc
RECURSIVE DigitsValue(_, _)
DigitsValue(t, acc) ==
  IF t # << >> /\ IsDigit(Head(t))
    THEN DigitsValue(Tail(t), 10 * acc + DigitValue(Head(t)))
    ELSE acc

\* parseInt(text): leading blanks skipped, an optional sign, then digits up
\* to the first other character; NaN when no digit is found there
ParseInt(text) ==
  LET t == StripLeft(text)
      signed == t # << >> /\ Head(t) \in {"-", "+"}
      u == IF signed THEN Tail(t) ELSE t
  IN IF u = << >> \/ ~IsDigit(Head(u))
       THEN NaN
       ELSE IF signed /\ Head(t) = "-"
              THEN Num(0 - DigitsValue(u, 0))
              ELSE Num(DigitsValue(u, 0))

\* x < n and x > n in JavaScript: false whenever x is NaN
JsLess(x, n) == ~x.nan /\ x.val < n
JsGreater(x, n) == ~x.nan /\ x.val > n

\* cycleTime < 1 || cycleTime > 1440, and the same test of maxTokens
OutOfRange(x, lo, hi) == JsLess(x, lo) \/ JsGreater(x, hi)

\* texts the two number fields of the dialog may hold when Save is pressed
CycleTimeTexts ==
  { << >>, <<"a", "b", "c">>, <<"0">>, <<"1">>, <<"3", "0">>,
    <<"1", "4", "4", "0">>, <<"1", "4", "4", "1">>, <<"-", "5">>,
    <<"1", "2", "a", "b", "c">> }
MaxTokensTexts ==
  { << >>, <<"x">>, <<"9", "9">>, <<"1", "0", "0">>, <<"2", "0", "0", "0">>,
    <<"1", "0", "0", "0", "0", "0">>, <<"1", "0", "0", "0", "0", "1">> }

TokenSymbols == {"ETH", "BTC"}

\* s without its element at 0-based position index (splice(index, 1))
Splice(s, index) ==
  IF index + 1 \in 1..Len(s)
    THEN SubSeq(s, 1, index) \o SubSeq(s, index + 2, Len(s))
    ELSE s

IndexOf(s, x) ==
  IF \E k \in 1..Len(s) : s[k] = x
    THEN (CHOOSE k \in 1..Len(s) : s[k] = x /\ \A j \in 1..(k - 1) : s[j] # x) - 1
    ELSE 0 - 1

\* toggleToken(symbol)
ToggleToken(symbol) ==
  /\ selectedTokens' = IF IndexOf(selectedTokens, symbol) = 0 - 1
                         THEN Append(selectedTokens, symbol)
                         ELSE Splice(selectedTokens,
                                     IndexOf(selectedTokens, symbol))
  /\ UNCHANGED <<swarmModels, validation, saveInFlight, lastSave>>
  /\ UNCHANGED <<backendVars, refreshVars, panelVars>>

\* showValidationMessage(message, type)
ValidationMessage(message, type) == [text |-> message, type |-> type]

\* a line of the console: "[time] message" with the level as its class
ConsoleLine(time, message, level) ==
  [time |-> time, message |-> message, level |-> level]

\* (variant: the loop that removes the lines over the limit is missing)
AddConsoleMessageUntrimmed(c, message, level) ==
  <<ConsoleLine(TimeString(now), message, level)>> \o c

\* addConsoleMessage(message, level): a line stamped with the time of the
\* call is prepended, the panel cut to its limit
AddConsoleMessage(c, message, level) ==
  LET c2 == <<ConsoleLine(TimeString(now), message, level)>> \o c
  IN IF Len(c2) > ConsoleLimit THEN SubSeq(c2, 1, ConsoleLimit) ELSE c2

\* what a saveSettings call did, with the inputs it read
SaveRecord(cycleText, maxText, sent) ==
  [calls |-> lastSave.calls + 1, tokens |-> Len(selectedTokens),
   cycleText |-> cycleText, maxText |-> maxText, sent |-> sent]

\* saveSettings() up to its request: the three checks, then POST
\* /api/settings with the collected settings
SaveSettings(cycleText, maxText) ==
  LET cycleTime == ParseInt(cycleText)
      maxTokens == ParseInt(maxText)
  IN /\ lastSave.calls < MaxSaves
     /\ IF Len(selectedTokens) = 0
          THEN /\ validation' = ValidationMessage("select_token", "error")
               /\ lastSave' = SaveRecord(cycleText, maxText, FALSE)
               /\ UNCHANGED saveInFlight
          ELSE IF OutOfRange(cycleTime, MinCycleTime, MaxCycleTime)
            THEN /\ validation' = ValidationMessage("cycle_time", "error")
                 /\ lastSave' = SaveRecord(cycleText, maxText, FALSE)
                 /\ UNCHANGED saveInFlight
            ELSE IF OutOfRange(maxTokens, MinMaxTokens, MaxMaxTokens)
              THEN /\ validation' = ValidationMessage("max_tokens", "error")
                   /\ lastSave' = SaveRecord(cycleText, maxText, FALSE)
                   /\ UNCHANGED saveInFlight
              ELSE /\ saveInFlight' =
                        Append(saveInFlight,
                               [sleep_minutes |-> cycleTime,
                                ai_max_tokens |-> maxTokens,
                                monitored_tokens |-> selectedTokens,
                                swarm_models |-> swarmModels])
                   /\ lastSave' = SaveRecord(cycleText, maxText, TRUE)
                   /\ UNCHANGED validation
     /\ UNCHANGED <<selectedTokens, swarmModels>>
     /\ UNCHANGED <<backendVars, refreshVars, panelVars>>

\* the answer to a POST /api/settings: success (message, console line, the
\* dialog closes later), a refusal, or no answer at all
SaveSettingsResponse(k, outcome) ==
  /\ k \in 1..Len(saveInFlight)
  /\ saveInFlight' = Splice(saveInFlight, k - 1)
  /\ IF outcome = "success"
       THEN /\ validation' = ValidationMessage("saved", "success")
            /\ consoleEl' = AddConsoleMessage(consoleEl, "saved", "success")
       ELSE /\ validation' = ValidationMessage("save_failed", "error")
            /\ UNCHANGED consoleEl
  /\ UNCHANGED <<selectedTokens, swarmModels, lastSave>>
  /\ UNCHANGED <<backendVars, refreshVars, callsInFlight, callsMade>>

\* three seconds after a success message its class is reset
ValidationFades ==
  /\ validation.type = "success"
  /\ validation' = [validation EXCEPT !.type = ""]
  /\ UNCHANGED <<selectedTokens, swarmModels, saveInFlight, lastSave>>
  /\ UNCHANGED <<backendVars, refreshVars, panelVars>>

\* the model addSwarmModel pushes, and a model of a list the server sent
DefaultSwarmModel == [provider |-> "gemini", model |-> "gemini-2.5-flash"]
ServerSwarmModel == [provider |-> "openai", model |-> "gpt-4o"]

\* addSwarmModel(): nothing at the limit, else push the default model
AfterAddSwarmModel(models) ==
  IF Len(models) >= MaxSwarmModels THEN models
  ELSE Append(models, DefaultSwarmModel)

\* removeSwarmModel(index): nothing at the last model, else splice
AfterRemoveSwarmModel(models, index) ==
  IF Len(models) <= MinSwarmModels THEN models ELSE Splice(models, index)

AddSwarmModel ==
  /\ swarmModels' = AfterAddSwarmModel(swarmModels)
  /\ UNCHANGED <<selectedTokens, validation, saveInFlight, lastSave>>
  /\ UNCHANGED <<backendVars, refreshVars, panelVars>>

\* the remove button of card `index` (rendered when there are two or more)
RemoveSwarmModel(index) ==
  /\ Len(swarmModels) > 1
  /\ index \in 0..(Len(swarmModels) - 1)
  /\ swarmModels' = AfterRemoveSwarmModel(swarmModels, index)
  /\ UNCHANGED <<selectedTokens, validation, saveInFlight, lastSave>>
  /\ UNCHANGED <<backendVars, refreshVars, panelVars>>

\* a field of the settings JSON that may be missing
Absent == [present |-> FALSE, value |-> << >>]
Present(v) == [present |-> TRUE, value |-> v]

\* field || fallback: an array, also an empty one, is truthy
OrElse(field, fallback) == IF field.present THEN field.value ELSE fallback

\* the swarm_models lists and the monitored_tokens a server answer may carry
ServerSwarmLists ==
  {Absent} \cup {Present([k \in 1..n |-> ServerSwarmModel]) :
                   n \in 0..MaxServerModels}
ServerTokenLists == {Absent, Present(<< >>), Present(<<"ETH">>)}

\* applySettings(settings), called by loadSettings with the server's answer
ApplySettings(tokens, models) ==
  /\ selectedTokens' = OrElse(tokens, <<"ETH", "BTC", "SOL">>)
  /\ swarmModels' = OrElse(models, <<DefaultSwarmModel>>)
  /\ UNCHANGED <<validation, saveInFlight, lastSave>>
  /\ UNCHANGED <<backendVars, refreshVars, panelVars>>

\* loadSettings() whose requests fail: the catch block
LoadSettingsFails ==
  /\ validation' = ValidationMessage("load_failed", "error")
  /\ UNCHANGED <<selectedTokens, swarmModels, saveInFlight, lastSave>>
  /\ UNCHANGED <<backendVars, refreshVars, panelVars>>

(* ------------------ dashboard: console and agent control -------------- *)

\* fetch(url) by updateConsole, runAgent or stopAgent, and its settling
Request(url) ==
  /\ callsMade < MaxCalls
  /\ callsMade' = callsMade + 1
  /\ callsInFlight' = [callsInFlight EXCEPT ![url] = @ + 1]
Settle(url) ==
  /\ callsInFlight[url] > 0
  /\ callsInFlight' = [callsInFlight EXCEPT ![url] = @ - 1]
  /\ UNCHANGED callsMade

\* the lengths of the log list /api/console answers with
LogLengths == {0, 1, ConsoleLimit - 1, ConsoleLimit, ConsoleLimit + 1}

\* a log list of the server: n entries, oldest first, the first k of them
\* from an earlier second than the others
ServerLog(n, k, t) ==
  [i \in 1..n |-> [timestamp |-> IF i <= k THEN 0 ELSE t,
                   level |-> "info", message |-> "log"]]
ServerLogs ==
  {ServerLog(n, k, t) : n \in LogLengths, k \in {0, 1}, t \in 0..now}

\* logs.slice(-n)
SliceLast(logs, n) ==
  IF Len(logs) > n THEN SubSeq(logs, Len(logs) - n + 1, Len(logs)) ELSE logs
\* .reverse()
Reverse(logs) == [i \in 1..Len(logs) |-> logs[Len(logs) + 1 - i]]

\* a line without a time: the placeholders of updateConsole and clearConsole
NoTime == << >>

\* what updateConsole writes to #console for the logs it received
RenderLogs(logs) ==
  IF Len(logs) = 0
    THEN <<ConsoleLine(NoTime, "No activity yet", "info")>>
    ELSE LET recentLogs == Reverse(SliceLast(logs, ConsoleLimit))
         IN [i \in 1..Len(recentLogs) |->
               ConsoleLine(TimeString(recentLogs[i].timestamp),
                           recentLogs[i].message, recentLogs[i].level)]

\* updateConsole() up to its request
UpdateConsoleCall ==
  /\ Request("/api/console")
  /\ UNCHANGED consoleEl
  /\ UNCHANGED <<backendVars, refreshVars, settingsVars>>

\* /api/console has answered
UpdateConsoleResponse(logs) ==
  /\ Settle("/api/console")
  /\ consoleEl' = RenderLogs(logs)
  /\ UNCHANGED <<backendVars, refreshVars, settingsVars>>

\* the request failed: logged to the browser console only
UpdateConsoleFails ==
  /\ Settle("/api/console")
  /\ UNCHANGED consoleEl
  /\ UNCHANGED <<backendVars, refreshVars, settingsVars>>

\* clearConsole()
ClearConsole ==
  /\ consoleEl' = <<ConsoleLine(NoTime, "Console cleared", "info")>>
  /\ UNCHANGED <<callsInFlight, callsMade>>
  /\ UNCHANGED <<backendVars, refreshVars, settingsVars>>

\* the JSON of /api/start and /api/stop: data.status ...
StartResponses == {"started", "already_running", "error"}
StopResponses == {"stopped", "stopped_forced", "not_running", "error"}
\* ... and data.message, the server's text for that status
DataMessage(status) == status

\* runAgent() up to its request
RunAgentCall ==
  /\ Request("/api/start")
  /\ consoleEl' = AddConsoleMessage(consoleEl, "Starting trading agent...",
                                    "info")
  /\ UNCHANGED <<backendVars, refreshVars, settingsVars>>

\* /api/start has answered
RunAgentResponse(status) ==
  /\ Settle("/api/start")
  /\ IF status = "started"
       THEN /\ consoleEl' =
                 AddConsoleMessage(consoleEl,
                                   "Trading agent started successfully",
                                   "success")
            /\ UpdateDashboard
       ELSE /\ consoleEl' =
                 IF status = "already_running"
                   THEN AddConsoleMessage(consoleEl,
                                          "Agent is already running", "warning")
                   ELSE AddConsoleMessage(consoleEl, DataMessage(status),
                                          "warning")
            /\ UNCHANGED refreshVars
  /\ UNCHANGED <<backendVars, settingsVars>>

\* the request failed, or its body was no JSON: the catch block
RunAgentFails ==
  /\ Settle("/api/start")
  /\ consoleEl' = AddConsoleMessage(consoleEl, "Error starting agent", "error")
  /\ UNCHANGED <<backendVars, refreshVars, settingsVars>>

\* stopAgent() up to its request
StopAgentCall ==
  /\ Request("/api/stop")
  /\ consoleEl' = AddConsoleMessage(consoleEl, "Stopping trading agent...",
                                    "info")
  /\ UNCHANGED <<backendVars, refreshVars, settingsVars>>

\* if (data.status === 'stopped'): the branch with the immediate update
StopRefreshes(status) == status = "stopped"

\* /api/stop has answered
StopAgentResponse(status) ==
  /\ Settle("/api/stop")
  /\ IF StopRefreshes(status)
       THEN /\ consoleEl' =
                 AddConsoleMessage(consoleEl,
                                   "Trading agent stopped successfully", "info")
            /\ UpdateDashboard
       ELSE /\ consoleEl' =
                 IF status = "not_running"
                   THEN AddConsoleMessage(consoleEl, "Agent is not running",
                                          "warning")
                   ELSE AddConsoleMessage(consoleEl, DataMessage(status),
                                          "warning")
            /\ UNCHANGED refreshVars
  /\ UNCHANGED <<backendVars, settingsVars>>

\* the request failed, or its body was no JSON: the catch block
StopAgentFails ==
  /\ Settle("/api/stop")
  /\ consoleEl' = AddConsoleMessage(consoleEl, "Error stopping agent", "error")
  /\ UNCHANGED <<backendVars, refreshVars, settingsVars>>

(* --------------------------- specifications --------------------------- *)

\* the page as loaded, before any response has arrived
UiInit ==
  /\ nUpd = 0
  /\ updPc = [i \in RefreshIds |-> "unborn"]
  /\ updStatus = [i \in RefreshIds |-> NoStatus]
  /\ requests = {}
  /\ now = 0
  /\ timestampEl = << >>
  /\ badge = [text |-> NoContent, cls |-> "agent-badge",
              runBtn |-> "inline-flex", pauseBtn |-> "none"]
  /\ balanceEl = NoContent
  /\ pnlEl = NoContent
  /\ statusEl = [text |-> NoContent, cls |-> "sublabel"]
  /\ exchangeEl = NoContent
  /\ positionsEl = NoContent
  /\ tradesEl = NoContent
  /\ chartEl = NoContent
  /\ location = "/"
  /\ consoleEl = << >>
  /\ callsInFlight = [u \in PanelUrls |-> 0]
  /\ callsMade = 0
  /\ selectedTokens = << >>
  /\ swarmModels = << >>
  /\ validation = [text |-> "", type |-> ""]
  /\ saveInFlight = << >>
  /\ lastSave = [calls |-> 0, tokens |-> 0, cycleText |-> << >>,
                 maxText |-> << >>, sent |-> FALSE]

Init ==
  /\ phase = "STOPPED"
  /\ executing = FALSE
  /\ lastStarted = Null
  /\ lastStopped = Null
  /\ cancel = FALSE
  /\ clock = 1
  /\ wpc = [w \in Workers |-> "unborn"]
  /\ current = NoWorker
  /\ callPc = [c \in Callers |-> "idle"]
  /\ joinTarget = [c \in Callers |-> NoWorker]
  /\ ret = Returned(Coord, "none", NoSnapshot)
  /\ cleanStopped = FALSE
  /\ cycleErrors = 0
  /\ sdPc = "idle"
  /\ shutdownFlag = FALSE
  /\ flushDrained = FALSE
  /\ flushMark = 0
  /\ capacity \in 1..MaxCapacity
  /\ queue = << >>
  /\ droppedCount = 0
  /\ nEnq = 0
  /\ today = 1
  /\ wPc = "idle"
  /\ pending = << >>
  /\ ring = << >>
  /\ logFile = [d \in Days |-> << >>]
  /\ opErrors = 0
  /\ processed = << >>
  /\ UiInit

\* AgentController with its callers and its worker threads; the coordinator
\* takes part as the caller of stop() it is
Next ==
  \/ \E c \in ApiCallers : Start(c)
  \/ \E c \in ApiCallers : StopCall(c)
  \/ \E c \in ApiCallers : StopFinish(c)
  \/ \E w \in Workers : Worker(w)
  \/ Terminate
  \/ CoordStop

\* the controller's claims do not depend on the configured capacity: the
\* largest one is taken
AgentInit == Init /\ capacity = MaxCapacity

Spec == AgentInit /\ [][Next]_vars

\* the same with status() queries, whose snapshots are kept as returned
NextStatus ==
  \/ Next
  \/ \E c \in ApiCallers : Status(c)

StatusSpec == AgentInit /\ [][NextStatus]_vars

\* a stop() call that has begun its join returns: the join is bounded by
\* the join timeout
LiveSpec ==
  /\ Spec
  /\ \A c \in ApiCallers : WF_vars(StopFinish(c))
  /\ WF_vars(CoordStop)

\* AgentController and its worker threads without the coordinator
NextCycle ==
  \/ \E c \in ApiCallers : Start(c)
  \/ \E c \in ApiCallers : StopCall(c)
  \/ \E c \in ApiCallers : StopFinish(c)
  \/ \E w \in Workers : Worker(w)

CycleSpec == AgentInit /\ [][NextCycle]_vars

\* a worker thread that can take a step of CycleScheduler.run takes it: the
\* inter-cycle wait times out, a returned cycleFn is followed up
LiveCycleSpec ==
  /\ CycleSpec
  /\ \A w \in Workers : WF_vars(Worker(w))

\* the telemetry pipeline alone: producers and the writer
NextQueue ==
  \/ \E p \in Producers : ProducerEnqueue(p)
  \/ Writer
  \/ Midnight

QueueSpec == Init /\ [][NextQueue]_vars

\* the writer with one producer, within one day
NextWriter ==
  \/ ProducerEnqueue("app")
  \/ Writer

WriterSpec == Init /\ [][NextWriter]_vars

\* the writer's loop runs: every flush interval elapses, every write ends
LiveWriterSpec == WriterSpec /\ WF_vars(Writer)

\* the telemetry pipeline with the console's queries of the ring buffer
NextConsole ==
  \/ ProducerEnqueue("app")
  \/ Writer
  \/ \E c \in ApiCallers, limit \in 0..MaxLimit,
        filter \in LogLevels \cup {NoFilter} : RecentLogs(c, limit, filter)

\* overflow is the case of interest: the smallest queue is taken
ConsoleInit == Init /\ capacity = 1

ConsoleSpec == ConsoleInit /\ [][NextConsole]_vars

\* the dashboard's refresh cycle against any server answers
NextRefresh ==
  \/ UpdateDashboardCall
  \/ \E i \in RefreshIds, r \in AgentStatusResponses :
        UpdateDashboardStatus(i, r)
  \/ \E i \in RefreshIds, r \in DataResponses : UpdateDashboardData(i, r)
  \/ \E i \in RefreshIds, t \in Payloads : UpdateDashboardTrades(i, t)
  \/ \E i \in RefreshIds, f \in BOOLEAN, h \in Payloads :
        UpdatePortfolioChart(i, f, h)
  \/ \E i \in RefreshIds : UpdateDashboardCatch(i)
  \/ Tick
  \/ UpdateTimestamp

\* the dashboard's claims do not depend on the backend's configuration
PageInit == Init /\ capacity = MaxCapacity

RefreshSpec == PageInit /\ [][NextRefresh]_vars

\* the settings dialog: token selection and Save
NextSave ==
  \/ \E symbol \in TokenSymbols : ToggleToken(symbol)
  \/ \E c \in CycleTimeTexts, m \in MaxTokensTexts : SaveSettings(c, m)
  \/ \E k \in 1..MaxSaves, o \in {"success", "refused", "failed"} :
        SaveSettingsResponse(k, o)
  \/ ValidationFades

SaveSpec == PageInit /\ [][NextSave]_vars

\* the settings dialog: the swarm model list and settings loads
NextSwarm ==
  \/ AddSwarmModel
  \/ \E index \in 0..MaxServerModels : RemoveSwarmModel(index)
  \/ \E t \in ServerTokenLists, m \in ServerSwarmLists : ApplySettings(t, m)
  \/ LoadSettingsFails

SwarmSpec == PageInit /\ [][NextSwarm]_vars

\* the console panel and the run and pause buttons, against any server
\* answers
NextPanel ==
  \/ UpdateConsoleCall
  \/ \E logs \in ServerLogs : UpdateConsoleResponse(logs)
  \/ UpdateConsoleFails
  \/ ClearConsole
  \/ RunAgentCall
  \/ \E status \in StartResponses : RunAgentResponse(status)
  \/ RunAgentFails
  \/ StopAgentCall
  \/ \E status \in StopResponses : StopAgentResponse(status)
  \/ StopAgentFails
  \/ Tick

PanelSpec == PageInit /\ [][NextPanel]_vars

\* process shutdown: the coordinator, the worker it stops and the writer it
\* flushes
NextShutdown ==
  \/ \E c \in ApiCallers : Start(c)
  \/ \E w \in Workers : Worker(w)
  \/ Writer
  \/ Terminate
  \/ CoordStop
  \/ CoordFlushBegin
  \/ CoordFlushDone
  \/ CoordFlushDeadline
  \/ CoordExit

ShutdownSpec == AgentInit /\ [][NextShutdown]_vars

\* every step of the coordinator is bounded: the join by the join timeout,
\* the flush by its deadline
LiveShutdownSpec ==
  /\ ShutdownSpec
  /\ WF_vars(CoordStop)
  /\ WF_vars(CoordFlushBegin)
  /\ WF_vars(CoordFlushDone \/ CoordFlushDeadline)
  /\ WF_vars(CoordExit)

(* ------------------------------- claims ------------------------------- *)

\* C1: at most one worker thread exists at any time, across every sequence
\* of start() and stop() calls, forced stops followed by start() included.
C1_AtMostOneWorker == Cardinality(LiveWorkers) <= 1

C3_StopWhenStopped ==
  [][\A c \in Callers :
       (StopBegin(c) /\ phase = "STOPPED") =>
         /\ ret' = Returned(c, "not_running", NoSnapshot)
         /\ phase' = phase /\ executing' = executing
         /\ lastStarted' = lastStarted /\ lastStopped' = lastStopped
         /\ cancel' = cancel
         /\ callPc' = callPc]_vars

\* C3 happens: stop() returned not_running after the agent had run once
C3_Witness ==
  /\ ret.status = "not_running"
  /\ lastStarted # Null
  /\ phase = "STOPPED"

\* C4: after a stop() that returned `stopped`, every status() snapshot taken
\* before the next start() has running=false and executing=false.
C4_StatusAfterStop ==
  [][\A c \in ApiCallers :
       (Status(c) /\ cleanStopped) =>
         /\ ret'.snapshot.running = FALSE
         /\ ret'.snapshot.executing = FALSE]_vars

\* C5: in every reachable state executing=true implies phase=RUNNING.
C5_ExecutingImpliesRunning == executing => phase = "RUNNING"

\* C6: the number of entries held by TelemetryQueue never exceeds its
\* configured capacity, whatever producers and drainBatch do; an enqueue at
\* capacity increments droppedCount and leaves the queue as it was.
C6_QueueBounded ==
  /\ [](Len(queue) <= capacity)
  /\ [][\A p \in Producers :
          (ProducerEnqueue(p) /\ Len(queue) >= capacity) =>
            /\ droppedCount' = droppedCount + 1
            /\ queue' = queue]_vars

\* C6 happens: the queue is at capacity and an entry has been rejected,
\* with the writer having drained in between
C6_Witness ==
  /\ Len(queue) = capacity
  /\ droppedCount > 0
  /\ PersistedLog # << >>

\* nothing has been drained from the queue yet
NothingDrained == pending = << >> /\ ring = << >>

\* C7: with no consumer draining, after n enqueue calls on an empty queue of
\* capacity c the queue holds min(n, c) entries and droppedCount is
\* max(0, n - c).
C7_OverflowCount ==
  NothingDrained =>
    /\ Len(queue) = Min(nEnq, capacity)
    /\ droppedCount = IF nEnq > capacity THEN nEnq - capacity ELSE 0

\* C7 happens: more submissions than the capacity, none drained
C7_Witness ==
  /\ NothingDrained
  /\ nEnq > capacity + 1
  /\ droppedCount = nEnq - capacity

\* C8: enqueue never blocks the producer: in every state of the queue and
\* of the LogWriter an enqueue call can be made and completes in one step,
\* the entry accepted or rejected.
C8_EnqueueNeverBlocks ==
  /\ []((sdPc # "exited" /\ nEnq < MaxEnq) =>
          \A p \in Producers : ENABLED ProducerEnqueue(p))
  /\ [][\A p \in Producers :
          ProducerEnqueue(p) =>
            /\ nEnq' = nEnq + 1
            /\ \/ /\ \E lvl \in ProducerLevels :
                        queue' = Append(queue, NewEntry(p, lvl, "log"))
                  /\ droppedCount' = droppedCount
               \/ queue' = queue /\ droppedCount' = droppedCount + 1]_vars

\* C8 happens: an entry was rejected at a full queue while the writer had
\* failed on a disk write
C8_Witness ==
  /\ wPc = "failed"
  /\ Len(queue) = capacity
  /\ droppedCount > 0

\* C9: when cycleFn never returns, a stop() that is waiting for the worker
\* returns stopped_forced (the join timeout elapses), with phase forced to
\* STOPPED and an error-level event about the abandoned worker handed to the
\* telemetry queue.
C9_ForcedStop ==
  /\ \A c \in Callers :
       (callPc[c] = "joining" /\ wpc[joinTarget[c]] = "hung")
         ~> (ret = Returned(c, "stopped_forced", NoSnapshot) /\ phase = "STOPPED")
  /\ [][\A c \in Callers :
          (callPc[c] = "joining" /\ wpc[joinTarget[c]] = "hung"
             /\ callPc'[c] = "idle") =>
            /\ ret' = Returned(c, "stopped_forced", NoSnapshot)
            /\ phase' = "STOPPED"
            /\ nEnq' = nEnq + 1
            /\ LET e == NewEntry("controller", "error", "abandoned")
               IN \/ queue' = Append(queue, e)
                  \/ Len(queue) >= capacity /\ droppedCount' = droppedCount + 1]_vars

\* C9 happens: stop() has returned stopped_forced and the worker still hangs
C9_Witness ==
  /\ ret.status = "stopped_forced"
  /\ phase = "STOPPED"
  /\ \E w \in Workers : wpc[w] = "hung"

\* C10: once a termination request is received the shutdown sequence always
\* reaches exit, whatever cycleFn and the disk do.
C10_ShutdownExits == (sdPc # "idle") ~> (sdPc = "exited")

\* C10 happens: the process has exited with a worker hung in cycleFn and
\* the writer failed on a disk write
C10_Witness ==
  /\ sdPc = "exited"
  /\ \E w \in Workers : wpc[w] = "hung"
  /\ wPc = "failed"

\* what stop() can return
StopResults == {"stopped", "stopped_forced", "not_running"}

\* C11: the shutdown steps happen in this order and each at most once: the
\* shutdown flag is set, then stop() is called and returns, then
\* flush(deadline) is called, then the process exits; flush never starts
\* before stop() has returned.
C11_ShutdownOrder ==
  /\ [][sdPc' # sdPc =>
         \/ sdPc = "idle" /\ sdPc' = "flagged" /\ ~shutdownFlag /\ shutdownFlag'
         \/ sdPc = "flagged" /\ sdPc' = "stopping" /\ callPc'[Coord] = "joining"
         \/ /\ sdPc \in {"flagged", "stopping"} /\ sdPc' = "stopped"
            /\ callPc'[Coord] = "idle"
            /\ ret'.caller = Coord /\ ret'.status \in StopResults
         \/ sdPc = "stopped" /\ sdPc' = "flushing" /\ callPc[Coord] = "idle"
         \/ sdPc = "flushing" /\ sdPc' = "flushed"
         \/ sdPc = "flushed" /\ sdPc' = "exited"]_vars
  /\ [][shutdownFlag => shutdownFlag']_vars
  /\ [](sdPc \in {"flushing", "flushed", "exited"} =>
          shutdownFlag /\ callPc[Coord] = "idle")

\* C11 happens: the process has exited after a stop() that joined the
\* worker and a flush that drained the queue
C11_Witness ==
  /\ sdPc = "exited"
  /\ lastStopped # Null
  /\ flushDrained
  /\ PersistedLog # << >>

\* identities of the entries (or lines) a sequence holds
IdsOf(q) == {q[i].id : i \in 1..Len(q)}

\* C12: when the shutdown flush(deadline) completes within its deadline,
\* every entry TelemetryQueue accepted before the flush began is present in a
\* daily log file, whatever the number of queued entries is relative to the
\* drain batch size: none of them is still queued or held in a batch. (The
\* flush counted as complete is one whose final cycle wrote its whole batch.)
C12_FlushPersistsAll ==
  [][(CoordFlushDone /\ wPc = "idle") =>
       \A id \in IdsOf(queue) \cup IdsOf(pending) :
         id <= flushMark => id \in IdsOf(PersistedLog)]_vars

C14_DayFiles ==
  /\ \A d \in Days : \A i \in 1..Len(logFile[d]) : logFile[d][i].day = d
  /\ \A i, j \in 1..Len(PersistedLog) :
       PersistedLog[i].id = PersistedLog[j].id => i = j

\* C15: when cycleFn reports a non-fatal error and no stop is requested,
\* the scheduler does not leave its loop and goes on to invoke cycleFn again
\* after the inter-cycle wait; each failed invocation produces exactly one
\* error-level LogEntry.
C15_ErrorsDoNotStopScheduler ==
  /\ [][\A w \in Workers :
          WorkerCycleReturn(w, "error") =>
            /\ wpc'[w] = "check"
            /\ nEnq' = nEnq + 1
            /\ LET e == NewEntry("cycle", "error", "cycle_error")
               IN \/ queue' = Append(queue, e) /\ droppedCount' = droppedCount
                  \/ /\ Len(queue) >= capacity
                     /\ queue' = queue
                     /\ droppedCount' = droppedCount + 1]_vars
  /\ [][\A w \in Workers :
          (wpc[w] # "exited" /\ wpc'[w] = "exited") =>
            cancel \/ wpc[w] = "fatal"]_vars
  /\ \A w \in Workers :
       (wpc[w] = "check" /\ ~cancel) ~> (wpc[w] \in {"cycle", "hung"} \/ cancel)

\* C15 happens: the only worker is inside cycleFn again after a failed
\* invocation whose error event was queued, no stop requested
C15_Witness ==
  /\ cycleErrors > 0
  /\ current = 1
  /\ wpc[1] = "cycle"
  /\ ~cancel /\ phase = "RUNNING"
  /\ \E i \in 1..Len(queue) : queue[i].msg = "cycle_error"

\* the step is an accepted start(), a stop request, the end of a stop()
\* call's join, the scheduler's exit on a fatal failure
ByStart == \E c \in ApiCallers : ret' = Returned(c, "started", NoSnapshot)
ByStopRequest ==
  \E c \in Callers : callPc[c] = "idle" /\ callPc'[c] = "joining"
ByJoinEnd == \E c \in Callers : callPc[c] = "joining" /\ callPc'[c] = "idle"
ByFatalExit == \E w \in Workers : wpc[w] = "fatal" /\ wpc'[w] = "exited"

EntryOf(id) ==
  CHOOSE e \in {processed[k] : k \in 1..Len(processed)} : e.id = id

\* entries of one producer stand in submission order in the sequence q
InSubmissionOrder(q) ==
  \A i, j \in 1..Len(q) :
    (i < j /\ q[i].producer = q[j].producer) => q[i].id < q[j].id

\* C18: entries submitted by a single producer are enqueued and later
\* written to the daily file in submission order: of two accepted entries of
\* the same producer the one submitted first has its line first in the
\* persisted log, under every interleaving with other producers and with the
\* LogWriter.
C18_ProducerOrder ==
  /\ InSubmissionOrder(queue)
  /\ InSubmissionOrder(pending)
  /\ InSubmissionOrder([i \in 1..Len(PersistedLog) |->
                          EntryOf(PersistedLog[i].id)])

\* C18 happens: two lines of one producer are persisted with a line of the
\* other producer between them
C18_Witness ==
  \E i, j, k \in 1..Len(PersistedLog) :
    /\ i < k /\ k < j
    /\ EntryOf(PersistedLog[i].id).producer = EntryOf(PersistedLog[j].id).producer
    /\ EntryOf(PersistedLog[k].id).producer # EntryOf(PersistedLog[i].id).producer

\* a is an ordered subsequence of b
IsSubsequence(a, b) ==
  \E f \in [1..Len(a) -> 1..Len(b)] :
    /\ \A i, j \in 1..Len(a) : i < j => f[i] < f[j]
    /\ \A i \in 1..Len(a) : a[i] = b[f[i]]

\* C19: recentLogs(limit, levelFilter) always returns a result and never an
\* error, in every state including queue overflow and disk failure; the
\* result is an ordered subsequence of the RingBuffer with at most limit
\* entries, all matching the level filter when one is given.
C19_RecentLogs ==
  /\ [](\A c \in ApiCallers, limit \in 0..MaxLimit,
           filter \in LogLevels \cup {NoFilter} :
          (callPc[c] = "idle" /\ sdPc # "exited") =>
            ENABLED RecentLogs(c, limit, filter))
  /\ [][\A c \in ApiCallers, limit \in 0..MaxLimit,
           filter \in LogLevels \cup {NoFilter} :
          RecentLogs(c, limit, filter) =>
            /\ ret'.status = "ok"
            /\ IsSubsequence(ret'.logs, ring)
            /\ Len(ret'.logs) <= limit
            /\ filter # NoFilter =>
                 \A i \in 1..Len(ret'.logs) : ret'.logs[i].level = filter
            /\ ring' = ring]_vars

\* C19 happens: a filtered query has returned one of the two entries of the
\* ring buffer, after an entry was dropped at a full queue and a disk write
\* failed
C19_Witness ==
  /\ ret.status = "ok"
  /\ Len(ret.logs) = 1
  /\ Len(ring) = 2
  /\ ring[1].level # ring[2].level
  /\ ret.logs[1] = ring[1]
  /\ droppedCount > 0
  /\ opErrors > 0

\* worker w is inside a cycleFn invocation
InCycle(w) == wpc[w] \in {"cycle", "hung"}
\* worker w is between cycles: cycleFn has returned, or it is in the wait
BetweenCycles(w) == wpc[w] \in {"check", "wait"}

\* C20: once the cancellation signal is raised and until start() clears it,
\* the scheduler begins no new cycleFn invocation: a worker waiting between
\* cycles leaves the wait and exits the loop, and a worker whose cycleFn
\* returns after the signal exits without waiting.
C20_NoCycleAfterCancel ==
  /\ [][\A w \in Workers :
          (cancel /\ cancel' /\ ~InCycle(w)) => ~InCycle(w)']_vars
  /\ [][\A w \in Workers :
          (cancel /\ BetweenCycles(w) /\ wpc'[w] # wpc[w]) =>
            wpc'[w] = "exited"]_vars

\* C21: whenever phase is STOPPING it eventually becomes STOPPED, and every
\* stop() call returns one of stopped, stopped_forced, not_running: a call
\* that found phase=STOPPED returns not_running at once, a call that is
\* waiting for the worker returns stopped or stopped_forced, also when
\* several stop() calls overlap and when cycleFn never returns.
C21_StoppingReachesStopped ==
  /\ (phase = "STOPPING") ~> (phase = "STOPPED")
  /\ \A c \in Callers : (callPc[c] = "joining") ~> (callPc[c] = "idle")
  /\ [](phase = "STOPPING" => \E c \in Callers : callPc[c] = "joining")
  /\ [][\A c \in Callers :
          (callPc[c] = "joining" /\ callPc'[c] = "idle") =>
            /\ ret'.caller = c
            /\ ret'.status \in {"stopped", "stopped_forced"}
            /\ phase' = "STOPPED"]_vars
  /\ [][\A c \in Callers :
          (StopBegin(c) /\ callPc'[c] = "idle") =>
            ret' = Returned(c, "not_running", NoSnapshot)]_vars

\* C21 happens: of two overlapping stop() calls on a worker hung in cycleFn
\* one has returned stopped_forced while the other still waits
C21_Witness ==
  /\ ret = Returned(Api, "stopped_forced", NoSnapshot)
  /\ phase = "STOPPED"
  /\ callPc[Coord] = "joining"
  /\ \E w \in Workers : wpc[w] = "hung" /\ joinTarget[Coord] = w

\* the event e was handed to the telemetry queue in this step: accepted, or
\* rejected at capacity and counted
Emitted(e) ==
  /\ nEnq' = nEnq + 1
  /\ \/ queue' = Append(queue, e) /\ droppedCount' = droppedCount
     \/ /\ Len(queue) >= capacity
        /\ queue' = queue
        /\ droppedCount' = droppedCount + 1

\* C22: when cycleFn reports a failure flagged fatal, the scheduler exits
\* its loop without invoking cycleFn again, AgentController's phase becomes
\* STOPPED with executing=false, a fatal-error event is emitted, and a
\* subsequent stop() returns not_running.
C22_FatalStops ==
  /\ [][\A w \in Workers :
          WorkerCycleReturn(w, "fatal") => wpc'[w] = "fatal"]_vars
  /\ [][\A w \in Workers :
          wpc[w] \in {"fatal", "exited"} => wpc'[w] \in {wpc[w], "exited"}]_vars
  /\ [][\A w \in Workers :
          (wpc[w] = "fatal" /\ wpc'[w] = "exited") =>
            /\ phase' = "STOPPED"
            /\ executing' = FALSE
            /\ Emitted(NewEntry("controller", "error", "fatal_stop"))]_vars
  /\ [][\A c \in ApiCallers :
          (StopCall(c) /\ phase = "STOPPED") =>
            ret' = Returned(c, "not_running", NoSnapshot)]_vars

\* C23: a rejected enqueue (queue at capacity) drops the new entry only:
\* the queued entries and their order are unchanged and droppedCount
\* increases by exactly 1; an accepted enqueue leaves droppedCount alone; and
\* droppedCount never decreases in any step, drainBatch and flush included.
C23_RejectDropsNewest ==
  /\ [][(nEnq' = nEnq + 1 /\ Len(queue) >= capacity) =>
          /\ queue' = queue
          /\ droppedCount' = droppedCount + 1
          /\ pending' = pending]_vars
  /\ [][(nEnq' = nEnq + 1 /\ Len(queue) < capacity) =>
          droppedCount' = droppedCount]_vars
  /\ [][droppedCount' >= droppedCount]_vars
  /\ [][nEnq' = nEnq => droppedCount' = droppedCount]_vars

\* C23 happens: two entries were rejected at a full queue, which still
\* holds the entry submitted first at its head
C23_Witness ==
  /\ droppedCount = 2
  /\ Len(queue) = capacity
  /\ queue[1].id = 1
  /\ nEnq = 3

\* the step is a drainBatch call of the LogWriter
ByDrain == wPc \in {"idle", "failed"} /\ wPc' = "writing"

ByWriteFailure == opErrors' = opErrors + 1

\* C25: a disk-write failure does not stop the LogWriter and loses nothing:
\* the failed batch is kept, the writer goes on to its next flush interval,
\* and every entry of the batch whose write failed is written to the daily
\* file by a later flush once the disk works again, exactly once.
C25_FailedWriteRetried ==
  /\ [][ByWriteFailure =>
          /\ pending' = pending
          /\ logFile' = logFile
          /\ queue' = queue
          /\ wPc' = "failed"]_vars
  /\ [](wPc = "failed" => ENABLED WriterDrain)
  /\ \A id \in 1..MaxEnq :
       (wPc = "failed" /\ id \in IdsOf(pending)) ~> (id \in IdsOf(PersistedLog))
  /\ [](\A i, j \in 1..Len(PersistedLog) :
          PersistedLog[i].id = PersistedLog[j].id => i = j)

\* C25 happens: the write of an entry failed, a later flush wrote it, and
\* the writer is idle again with nothing left to write
C25_Witness ==
  /\ opErrors > 0
  /\ wPc = "idle"
  /\ pending = << >>
  /\ \E i, j \in 1..Len(processed) :
       /\ i < j
       /\ processed[i] = processed[j]
       /\ processed[i].id \in IdsOf(PersistedLog)

\* C26: a disk-write failure in LogWriter never causes an enqueue into
\* TelemetryQueue: the failure is reported only on the operational error
\* channel, and the queue contents and droppedCount are unchanged by the
\* failure handling.
C26_NoFeedback ==
  /\ [][ByWriteFailure =>
          /\ nEnq' = nEnq
          /\ queue' = queue
          /\ droppedCount' = droppedCount]_vars
  /\ [][(wPc = "writing" /\ wPc' = "failed") => ByWriteFailure]_vars
  /\ [](\A i \in 1..Len(queue) : queue[i].producer # "writer")

\* C26 happens: a disk write has failed with the queue at capacity, and
\* nothing was rejected and nothing but the producer's entries is queued
C26_Witness ==
  /\ wPc = "failed"
  /\ opErrors > 0
  /\ Len(queue) = capacity
  /\ droppedCount = 0
  /\ \A i \in 1..Len(queue) : queue[i].producer = "app"

\* a is a prefix of b
IsPrefix(a, b) == Len(a) <= Len(b) /\ \A i \in 1..Len(a) : a[i] = b[i]

\* the step is the LogWriter's write of the entry at the head of its batch
ByWriterWrite ==
  wPc = "writing" /\ pending # << >> /\ pending' = Tail(pending)

\* C27: daily log files are append-only: at every step the previous content
\* of each daily file is a prefix of its new content, a file for an earlier
\* day is never written again after rotation to a later day, and only
\* LogWriter writes to them.
C27_AppendOnly ==
  /\ [][\A d \in Days : IsPrefix(logFile[d], logFile'[d])]_vars
  /\ [][\A d \in Days :
          (\E d2 \in Days : d2 > d /\ logFile[d2] # << >>) =>
            logFile'[d] = logFile[d]]_vars
  /\ [][\A d \in Days : d < today => logFile'[d] = logFile[d]]_vars
  /\ [][logFile' # logFile => ByWriterWrite]_vars

\* C27 happens: the writer has appended a second line to the file of the
\* first day and, after rotation, written the file of the next day
C27_Witness ==
  /\ Len(logFile[1]) >= 2
  /\ logFile[2] # << >>

\* invocation i of updateDashboard got executing=true from /api/agent-status
SawExecuting(i) == Truthy(updStatus[i].executing)

\* C28: updateDashboard performs a lightweight update while the agent is
\* executing: when /api/agent-status reports executing=true the invocation
\* issues no request to /api/data, /api/trades or /api/history and changes
\* only the timestamp and the agent badge, leaving balance, PnL, positions,
\* trades and chart as they were.
C28_LightweightUpdate ==
  /\ [](\A i \in RefreshIds :
          SawExecuting(i) => \A u \in HeavyUrls : <<i, u>> \notin requests)
  /\ [][\A i \in RefreshIds :
          (updPc[i] = "status" /\ updPc'[i] # "status" /\ SawExecuting(i)') =>
            /\ updPc'[i] = "done"
            /\ requests' = requests
            /\ timestampEl' = TimeString(now)
            /\ badge' = AgentBadge(updStatus'[i].running, "true")
            /\ UNCHANGED <<balanceEl, pnlEl, positionsEl, tradesEl, chartEl,
                           statusEl, exchangeEl, location, consoleEl>>]_vars
  /\ [][\A i \in RefreshIds :
          (updPc[i] = "done" /\ SawExecuting(i)) => updPc'[i] = "done"]_vars

\* C28 happens: after a full update had filled the page, an invocation that
\* found the agent executing has ended: the badge says RUNNING, the
\* timestamp is the current second, and the page still shows the data
C28_Witness ==
  \E i \in RefreshIds :
    /\ updPc[i] = "done"
    /\ SawExecuting(i)
    /\ badge.text = "RUNNING"
    /\ now > 0
    /\ timestampEl = TimeString(now)
    /\ balanceEl \in Payloads
    /\ tradesEl \in Payloads
    /\ chartEl \in Payloads

\* the text is a decimal numeral whose value lies in lo..hi
NumeralInRange(text, lo, hi) ==
  /\ text # << >>
  /\ \A k \in 1..Len(text) : IsDigit(text[k])
  /\ DigitsValue(text, 0) \in lo..hi

\* the step is a saveSettings call
BySaveSettings == lastSave'.calls = lastSave.calls + 1

\* C29: saveSettings sends POST /api/settings only when at least one token
\* is selected, the cycle time is between 1 and 1440 minutes and max tokens
\* is between 100 and 100000; for every other input (an empty or non-numeric
\* field included) it shows a validation error and sends nothing.
C29_SaveValidates ==
  [][BySaveSettings =>
       /\ lastSave'.sent <=>
            /\ lastSave'.tokens >= 1
            /\ NumeralInRange(lastSave'.cycleText, MinCycleTime, MaxCycleTime)
            /\ NumeralInRange(lastSave'.maxText, MinMaxTokens, MaxMaxTokens)
       /\ lastSave'.sent => Len(saveInFlight') = Len(saveInFlight) + 1
       /\ ~lastSave'.sent =>
            /\ saveInFlight' = saveInFlight
            /\ validation'.type = "error"]_vars

\* C30: the number of configured swarm models stays between 1 and 6 after
\* any sequence of addSwarmModel and removeSwarmModel calls and settings
\* loads (applySettings with any swarm_models list the server returned):
\* every change of the list leaves between 1 and 6 models, and a list within
\* that range stays within it.
C30_SwarmCount ==
  [][(swarmModels' # swarmModels
        \/ Len(swarmModels) \in MinSwarmModels..MaxSwarmModels) =>
       Len(swarmModels') \in MinSwarmModels..MaxSwarmModels]_vars

\* worker w has been abandoned by a forced stop: the stop() that returned
\* last returned stopped_forced after waiting for w, or start() has since
\* replaced w, still alive, as AgentController's thread
JustAbandoned(w) ==
  /\ w \in LiveWorkers
  /\ ret.status = "stopped_forced"
  /\ joinTarget[ret.caller] = w
Replaced(w) == w \in LiveWorkers /\ w # current

\* C33: a worker abandoned by a forced stop never invokes cycleFn again
\* after stop() has returned stopped_forced, also when start() is called
\* afterwards and clears the cancellation signal before the abandoned
\* worker has observed it.
C33_AbandonedWorkerIdle ==
  [][\A w \in Workers :
       ((JustAbandoned(w) \/ Replaced(w)) /\ ~InCycle(w)) => ~InCycle(w)']_vars

\* the entries TelemetryQueue accepted, wherever they are now: still queued,
\* held in a drained batch, or written to a daily file
Held == queue \o pending \o PersistedLog

\* C34: telemetry entries are conserved: in every reachable state the number
\* of enqueue calls made equals droppedCount plus the entries still queued
\* plus the entries held in a drained batch plus the entries written to
\* daily files, and no accepted entry is counted in two of these places.
C34_Conservation ==
  LET held == Held
  IN /\ nEnq = droppedCount + Len(queue) + Len(pending) + Len(PersistedLog)
     /\ Cardinality(IdsOf(held)) = Len(held)

\* C34 happens: an entry has been rejected, one is written, and one is held
\* in the batch of a failed disk write
C34_Witness ==
  /\ droppedCount > 0
  /\ PersistedLog # << >>
  /\ pending # << >>
  /\ wPc = "failed"

\* C35: no entry appears twice in the RingBuffer: each accepted entry is
\* appended to the ring buffer at most once, also when the disk write of its
\* batch fails and the batch is retried on a later flush.
C35_NoRingDuplicates ==
  /\ \A i, j \in 1..Len(ring) : ring[i].id = ring[j].id => i = j
  /\ \A i, j \in 1..Len(processed) :
       processed[i].id = processed[j].id => i = j

\* invocation j of updateDashboard has written the badge it computed: on
\* the lightweight path, or with the answer of /api/data (after which it
\* requested /api/trades)
WroteBadge(j) ==
  \/ updPc[j] = "done" /\ Lightweight(updStatus[j])
  \/ <<j, "/api/trades">> \in requests
\* this step is one of invocation i, and it changes the badge
WritesBadge(i) == updPc'[i] # updPc[i] /\ badge' # badge

\* C36: dashboard refreshes take effect in request order: when two
\* updateDashboard invocations overlap, the agent badge shown after both
\* have completed is the one computed from the invocation that started
\* last: no invocation changes the badge once an invocation that started
\* after it has written its own.
C36_RefreshOrder ==
  [][\A i, j \in RefreshIds :
       (i < j /\ WroteBadge(j)) => ~WritesBadge(i)]_vars

\* line i of the console is not older than line j below it (a placeholder
\* carries no time)
NotOlder(i, j) ==
  (consoleEl[i].time # NoTime /\ consoleEl[j].time # NoTime) =>
    Head(consoleEl[i].time) >= Head(consoleEl[j].time)

C32_StopRefreshesDashboard ==
  [][\A status \in StopResponses :
       StopAgentResponse(status) =>
         IF status \in {"stopped", "stopped_forced"}
           THEN /\ nUpd' = nUpd + 1
                /\ <<nUpd', "/api/agent-status">> \in requests'
                /\ consoleEl'[1].level # "warning"
           ELSE /\ nUpd' = nUpd
                /\ consoleEl'[1].level = "warning"]_vars

=============================================================================
